---- MODULE Spec2Model ----
(***************************************************************************)
(* A model of factslab/pytorch/rnnregression.py: the RNNRegression module  *)
(* (construction of the embedding table, the encoder cascade and the       *)
(* per-attribute regression heads; the forward pass) and the               *)
(* RNNRegressionTrainer (the fit loop with early stopping).                *)
(*                                                                         *)
(* Sizes are scaled down (a hidden size of 3 stands for 300); tensors are  *)
(* nested sequences over small integers; real numbers are exact rationals. *)
(***************************************************************************)
EXTENDS Integers, Sequences, FiniteSets, TLC

VARIABLES
    pc,         \* position inside RNNRegression.__init__
    args,       \* the constructor's embedding and cascade arguments
    regArgs,    \* the arguments __init__ hands to _initialize_regression
    self,       \* the fields of the RNNRegression object
    error,      \* the exception that ended the current call, "none" if none
    fpc,        \* position inside RNNRegression.forward
    input,      \* the arguments of the forward call
    fwd,        \* the locals of the forward call
    tpc,        \* whether the tensor operation has been applied
    tin,        \* the tensors handed to choose_timestep or _run_attention
    tout,       \* what the tensor operation returns
    fitpc,      \* position inside RNNRegressionTrainer.fit
    trainer,    \* the fields of the RNNRegressionTrainer and fit's arguments
    fit         \* the locals of the fit call

ctorVars   == <<pc, args, regArgs>>
fwdVars    == <<fpc, input, fwd>>
tensorVars == <<tpc, tin, tout>>
fitVars    == <<fitpc, trainer, fit>>

vars == <<pc, args, regArgs, self, error, fpc, input, fwd,
          tpc, tin, tout, fitpc, trainer, fit>>

----------------------------------------------------------------------------
(* Bounds of the model *)

\* longest list given for a cascade parameter
MaxStages == 2
\* longest regression_hidden_sizes
MaxRegLayers == 2

Classes      == {"LSTM", "ChildSumTreeLSTM"}
HiddenSizes  == {2, 3}
LayerCounts  == {1}
EmbSizes     == {5}
RegSizes     == {4, 6}
OutputSizes  == {1, 3}
Attributes   == {"acceptability", "part"}
Tokens       == <<"a", "b">>

----------------------------------------------------------------------------
(* Helpers for Python values *)

Range(s) == {s[i] : i \in DOMAIN s}

Last(s) == s[Len(s)]

Max(S) == CHOOSE m \in S : \A x \in S : x <= m

\* [v] * n
Rep(v, n) == [i \in 1..n |-> v]

\* all lists over S of length 0..n
Lists(S, n) == UNION {[1..k -> S] : k \in 0..n}

\* a scalar argument (not an Iterable) and a list argument
Scalar(v) == [iter |-> FALSE, val |-> <<v>>]
List(s)   == [iter |-> TRUE, val |-> s]

\* every way to give a cascade parameter: one scalar, or a list
Param(S) == {Scalar(v) : v \in S} \cup {List(s) : s \in Lists(S, MaxStages)}

\* non-empty lists of distinct attribute names
AttributeLists ==
    {s \in Lists(Attributes, Cardinality(Attributes)) :
        Len(s) >= 1 /\ \A i, j \in DOMAIN s : i # j => s[i] # s[j]}

\* a pre-trained matrix: a row index (the vocabulary) and the rows
Matrix(index, cols) ==
    [none |-> FALSE, index |-> index,
     values |-> [i \in DOMAIN index |-> [j \in 1..cols |-> 10 * i + j]]]

NoMatrix == [none |-> TRUE, index |-> <<>>, values |-> <<>>]

\* vocab and embedding_size arguments: None, or given
NoVocab == [none |-> TRUE, val |-> <<>>]
Vocab(v) == [none |-> FALSE, val |-> v]

----------------------------------------------------------------------------
(* RNNRegression._homogenize_parameters *)

\* the arguments that are Iterable
Iterables(a) ==
    {p \in {"rnn_classes", "rnn_hidden_sizes", "num_rnn_layers", "bidirectional"} :
        a[p].iter}

max_length(a) ==
    IF Iterables(a) # {} THEN Max({Len(a[p].val) : p \in Iterables(a)}) ELSE 1

HomogenizeOne(p, n) == IF ~p.iter THEN Rep(p.val[1], n) ELSE p.val

_homogenize_parameters(s, a) ==
    [s EXCEPT !.rnn_classes      = HomogenizeOne(a.rnn_classes, max_length(a)),
              !.rnn_hidden_sizes = HomogenizeOne(a.rnn_hidden_sizes, max_length(a)),
              !.num_rnn_layers   = HomogenizeOne(a.num_rnn_layers, max_length(a)),
              !.bidirectional    = HomogenizeOne(a.bidirectional, max_length(a))]

\* a validation that forgets the last of the three comparisons
ValidateFirstTwo(s) ==
    /\ Len(s.rnn_classes) = Len(s.rnn_hidden_sizes)
    /\ Len(s.rnn_classes) = Len(s.num_rnn_layers)

(* RNNRegression._validate_parameters: TRUE when no ValueError is raised *)
_validate_parameters(s) ==
    /\ Len(s.rnn_classes) = Len(s.rnn_hidden_sizes)
    /\ Len(s.rnn_classes) = Len(s.num_rnn_layers)
    /\ Len(s.rnn_classes) = Len(s.bidirectional)

----------------------------------------------------------------------------
(* RNNRegression._initialize_rnn: the loop that builds the stages *)

\* an output size that forgets the second direction
StageOutputSizeOneWay(hsize, bi) == hsize

\* output_size = hsize * 2 if bi else hsize
StageOutputSize(hsize, bi) == IF bi THEN hsize * 2 ELSE hsize

\* zip(): as long as the shortest of its arguments
ZipLen(lens) == IF lens = {} THEN 0 ELSE CHOOSE m \in lens : \A x \in lens : m <= x

\* the input size of stage i: the embedding size, then the previous output size
StageInputSize(s, i) ==
    IF i = 1 THEN s.embedding_size
    ELSE StageOutputSize(s.rnn_hidden_sizes[i - 1], s.bidirectional[i - 1])

BuildRnns(s) ==
    LET n == ZipLen({Len(s.rnn_classes), Len(s.rnn_hidden_sizes),
                     Len(s.num_rnn_layers), Len(s.bidirectional)})
    IN [i \in 1..n |->
          [class         |-> s.rnn_classes[i],
           input_size    |-> StageInputSize(s, i),
           hidden_size   |-> s.rnn_hidden_sizes[i],
           num_layers    |-> s.num_rnn_layers[i],
           bidirectional |-> s.bidirectional[i]]]

\* self.rnn_output_size: output_size after the loop
RnnOutputSize(s, rnns) ==
    IF rnns = <<>> THEN s.embedding_size
    ELSE StageOutputSize(Last(rnns).hidden_size, Last(rnns).bidirectional)

----------------------------------------------------------------------------
(* RNNRegression._initialize_regression *)

\* the layers of one attribute's head; last_size is what the loop carries in
HeadLayers(hidden_sizes, last_size, output_size, base) ==
    [i \in 1..(Len(hidden_sizes) + 1) |->
        [id  |-> base + i,
         in  |-> IF i = 1 THEN last_size ELSE hidden_sizes[i - 1],
         out |-> IF i <= Len(hidden_sizes) THEN hidden_sizes[i] ELSE output_size]]

\* last_size when one attribute's layers are built: last_size = h in the loop
LastSizeAfter(hidden_sizes, last_size) ==
    IF hidden_sizes = <<>> THEN last_size ELSE Last(hidden_sizes)

\* for attr in self.attributes: ... (last_size is not reset between attributes)
RECURSIVE LinearMaps(_, _, _, _, _, _)
LinearMaps(attrs, k, last_size, hidden_sizes, output_size, acc) ==
    IF k > Len(attrs) THEN acc
    ELSE LinearMaps(attrs, k + 1, LastSizeAfter(hidden_sizes, last_size),
                    hidden_sizes, output_size,
                    [a \in DOMAIN acc \cup {attrs[k]} |->
                        IF a = attrs[k]
                        THEN HeadLayers(hidden_sizes, last_size, output_size,
                                        (k - 1) * (Len(hidden_sizes) + 1))
                        ELSE acc[a]])

\* the shape of self.attention_map; <<>> when attention is off
batch_size == 2

AttentionMapShape(s, attention) ==
    IF ~attention THEN <<>>
    ELSE IF s.rnns[1].class = "LSTM" THEN <<batch_size, s.rnn_output_size>>
    ELSE <<s.rnn_output_size>>

----------------------------------------------------------------------------
(* The object before __init__ has set anything *)

EmptyFn == [x \in {} |-> 0]

NewObject ==
    [vocab |-> <<>>, num_embeddings |-> 0, embedding_size |-> 0,
     weight |-> <<>>, requires_grad |-> TRUE, vocab_hash |-> EmptyFn,
     rnn_classes |-> <<>>, rnn_hidden_sizes |-> <<>>,
     num_rnn_layers |-> <<>>, bidirectional |-> <<>>,
     rnns |-> <<>>, rnn_output_size |-> 0,
     attributes |-> <<>>, attention |-> FALSE, attention_map |-> <<>>,
     linear_maps |-> EmptyFn]

NoRegArgs ==
    [attention |-> FALSE, hidden_sizes |-> <<>>, output_size |-> 0,
     attributes |-> <<>>]

\* the three ways to say where the embeddings come from
EmbeddingArgs ==
    {[embeddings |-> Matrix(Tokens, e), vocab |-> NoVocab, embedding_size |-> NoVocab] :
        e \in EmbSizes}
    \cup {[embeddings |-> NoMatrix, vocab |-> Vocab(Tokens), embedding_size |-> Vocab(<<e>>)] :
        e \in EmbSizes}
    \cup {[embeddings |-> NoMatrix, vocab |-> NoVocab, embedding_size |-> NoVocab]}

CtorArgs ==
    [emb              : EmbeddingArgs,
     rnn_classes      : Param(Classes),
     rnn_hidden_sizes : Param(HiddenSizes),
     num_rnn_layers   : Param(LayerCounts),
     bidirectional    : Param(BOOLEAN)]

RegArgs ==
    [attention    : BOOLEAN,
     hidden_sizes : Lists(RegSizes, MaxRegLayers),
     output_size  : OutputSizes,
     attributes   : AttributeLists]


----------------------------------------------------------------------------
(* RNNRegression.__init__: the three _initialize_* calls, each giving the  *)
(* object it leaves and the exception it raises ("none" if none)           *)

\* {w: i for i, w in enumerate(vocab)}: the last position of each word
VocabHash(vocab) ==
    [w \in Range(vocab) |-> Max({i \in DOMAIN vocab : vocab[i] = w})]

\* with no matrix, len(None) is a TypeError, and the name embedding_size is
\* bound neither in this method nor in the module: a NameError
_initialize_embeddings(s, a) ==
    IF a.emb.embeddings.none
    THEN IF a.emb.vocab.none
         THEN [obj |-> s, err |-> "TypeError"]
         ELSE [obj |-> [s EXCEPT !.vocab = a.emb.vocab.val,
                                 !.num_embeddings = Len(a.emb.vocab.val)],
               err |-> "NameError"]
    ELSE [obj |-> [s EXCEPT
                     !.num_embeddings = Len(a.emb.embeddings.values),
                     !.embedding_size = Len(a.emb.embeddings.values[1]),
                     !.vocab = a.emb.embeddings.index,
                     !.weight = a.emb.embeddings.values,
                     !.requires_grad = FALSE,
                     !.vocab_hash = VocabHash(a.emb.embeddings.index)],
          err |-> "none"]

_initialize_rnn(s, a) ==
    LET h == _homogenize_parameters(s, a)
    IN IF ~_validate_parameters(h)
       THEN [obj |-> h, err |-> "ValueError"]
       ELSE [obj |-> [h EXCEPT !.rnns = BuildRnns(h),
                               !.rnn_output_size = RnnOutputSize(h, BuildRnns(h))],
             err |-> "none"]

\* self.rnns[0] of an empty cascade is an IndexError
_initialize_regression(s, r) ==
    IF r.attention /\ s.rnns = <<>>
    THEN [obj |-> [s EXCEPT !.attributes = r.attributes,
                            !.attention = r.attention],
          err |-> "IndexError"]
    ELSE [obj |-> [s EXCEPT
                     !.attributes = r.attributes,
                     !.attention = r.attention,
                     !.attention_map = AttentionMapShape(s, r.attention),
                     !.linear_maps = LinearMaps(r.attributes, 1, s.rnn_output_size,
                                                r.hidden_sizes, r.output_size, EmptyFn)],
          err |-> "none"]

\* the whole constructor
__init__(a, r) ==
    LET e == _initialize_embeddings(NewObject, a)
        n == _initialize_rnn(e.obj, a)
    IN IF e.err # "none" THEN e
       ELSE IF n.err # "none" THEN n
       ELSE _initialize_regression(n.obj, r)

NoInput == [kind |-> "none", lengths |-> FALSE]
NoTensors == [op |-> "none"]
NoResult == [err |-> "none"]
NoTrainer == [epochs |-> 0]
NoFit == [epoch |-> 0]
NoForward ==
    [has_batch_dim |-> FALSE, size |-> 0, applied |-> <<>>, dispatch |-> <<>>,
     summary |-> "none", ops |-> EmptyFn]

InitializeEmbeddings ==
    /\ pc = "embeddings"
    /\ LET res == _initialize_embeddings(self, args)
       IN /\ self' = res.obj
          /\ error' = res.err
          /\ pc' = IF res.err = "none" THEN "rnn" ELSE "failed"
    /\ UNCHANGED <<args, regArgs, fwdVars, tensorVars, fitVars>>

InitializeRnn ==
    /\ pc = "rnn"
    /\ LET res == _initialize_rnn(self, args)
       IN /\ self' = res.obj
          /\ error' = res.err
          /\ pc' = IF res.err = "none" THEN "regression" ELSE "failed"
    /\ UNCHANGED <<args, regArgs, fwdVars, tensorVars, fitVars>>

InitializeRegression ==
    /\ pc = "regression"
    /\ \E r \in RegArgs :
         LET res == _initialize_regression(self, r)
         IN /\ regArgs' = r
            /\ self' = res.obj
            /\ error' = res.err
            /\ pc' = IF res.err = "none" THEN "built" ELSE "failed"
    /\ UNCHANGED <<args, fwdVars, tensorVars, fitVars>>

Init ==
    /\ pc = "embeddings"
    /\ args \in CtorArgs
    /\ regArgs = NoRegArgs
    /\ self = NewObject
    /\ error = "none"
    /\ fpc = "idle"
    /\ input = NoInput
    /\ fwd = NoForward
    /\ tpc = "idle"
    /\ tin = NoTensors
    /\ tout = NoResult
    /\ fitpc = "idle"
    /\ trainer = NoTrainer
    /\ fit = NoFit

Next ==
    \/ InitializeEmbeddings
    \/ InitializeRnn
    \/ InitializeRegression

Spec == Init /\ [][Next]_vars

----------------------------------------------------------------------------
(* Claims about construction, checked under Spec *)

CascadeParams == {"rnn_classes", "rnn_hidden_sizes", "num_rnn_layers", "bidirectional"}

\* _initialize_rnn has run (and returned or raised)
RnnInitialized ==
    \/ pc \in {"regression", "built"}
    \/ pc = "failed" /\ error \in {"ValueError", "IndexError"}

\* the length of the longest list among the four arguments, 1 if all are scalars
C1_Longest ==
    LET lens == {Len(args[p].val) : p \in {q \in CascadeParams : args[q].iter}}
    IN IF lens = {} THEN 1 ELSE CHOOSE m \in lens : \A x \in lens : x <= m

\* the length of argument p once scalars are broadcast
C1_BroadcastLen(p) == IF args[p].iter THEN Len(args[p].val) ELSE C1_Longest

C1_Mismatch == \E p, q \in CascadeParams : C1_BroadcastLen(p) # C1_BroadcastLen(q)

\* C1: every scalar cascade argument is broadcast to the length of the longest
\* list among the four; if two of the four then differ in length the
\* construction fails with a ValueError and no encoder stage is built;
\* otherwise the four lists are equally long and there is one stage per position.
C1_CascadeLengths ==
    /\ C1_Mismatch => self.rnns = <<>> /\ pc # "built" /\ pc # "regression"
    /\ RnnInitialized =>
        /\ \A p \in CascadeParams :
              self[p] = IF args[p].iter THEN args[p].val
                        ELSE [i \in 1..C1_Longest |-> args[p].val[1]]
        /\ IF C1_Mismatch
           THEN pc = "failed" /\ error = "ValueError" /\ self.rnns = <<>>
           ELSE /\ error # "ValueError"
                /\ \A p \in CascadeParams : Len(self[p]) = Len(self.rnns)
                /\ \A i \in DOMAIN self.rnns :
                      /\ self.rnns[i].class = self.rnn_classes[i]
                      /\ self.rnns[i].hidden_size = self.rnn_hidden_sizes[i]
                      /\ self.rnns[i].num_layers = self.num_rnn_layers[i]
                      /\ self.rnns[i].bidirectional = self.bidirectional[i]

\* a scalar was broadcast to length 2 and another list was shorter: ValueError
C1_Witness ==
    /\ pc = "failed" /\ error = "ValueError"
    /\ ~args.rnn_classes.iter /\ Len(self.rnn_classes) = 2
    /\ args.bidirectional.iter /\ Len(self.bidirectional) = 1

\* the output size of stage i as the claim states it
C10_Out(i) ==
    IF self.bidirectional[i] THEN 2 * self.rnn_hidden_sizes[i]
    ELSE self.rnn_hidden_sizes[i]

\* C10: a stage's output size is twice its hidden size when it is
\* bidirectional and its hidden size otherwise; stage 0 takes the embedding
\* size, stage i+1 takes the output size of stage i (hidden size 3 gives 6
\* when bidirectional, 3 when not), and the size handed to the
\* attention/selector and the regression heads is the last stage's output size.
C10_StageSizes ==
    pc \in {"regression", "built"} =>
        LET n == Len(self.rnns)
        IN /\ n >= 1 => self.rnns[1].input_size = self.embedding_size
           /\ \A i \in 1..(n - 1) : self.rnns[i + 1].input_size = C10_Out(i)
           /\ \A i \in 1..(n - 1) :
                 self.rnn_hidden_sizes[i] = 3 =>
                    self.rnns[i + 1].input_size = IF self.bidirectional[i] THEN 6 ELSE 3
           /\ n >= 1 => self.rnn_output_size = C10_Out(n)
           /\ (pc = "built" /\ self.attention) =>
                 Last(self.attention_map) = C10_Out(n)

C10_Witness ==
    /\ pc = "built" /\ self.attention
    /\ Len(self.rnns) = 2
    /\ self.rnns[1].bidirectional /\ self.rnns[1].hidden_size = 3
    /\ self.rnns[2].input_size = 6
    /\ ~self.rnns[2].bidirectional /\ self.rnn_output_size = 2

\* the ids of the layers of one attribute's head
HeadIds(attr) == {self.linear_maps[attr][i].id : i \in DOMAIN self.linear_maps[attr]}

\* C4: whatever the attributes and regression_hidden_sizes, the first layer of
\* every attribute's head takes the summary-vector size (rnn_output_size) as
\* its input size, and no layer belongs to the heads of two attributes.
C4_HeadsTakeSummary ==
    pc = "built" =>
        /\ \A a \in Range(self.attributes) :
              self.linear_maps[a][1].in = self.rnn_output_size
        /\ \A a, b \in Range(self.attributes) :
              a # b => HeadIds(a) \cap HeadIds(b) = {}

----------------------------------------------------------------------------
(* RNNRegression.forward *)

\* the structures handed to forward: an object with a words() method, a
\* flat list of token strings, a list of such lists (a batch), or a list of
\* values that are neither; lengths (and tokens) are given or None
Inputs ==
    {[kind |-> k, lengths |-> l] :
        k \in {"tree", "flat", "batch", "other"}, l \in BOOLEAN}

\* lines 232-246: words = structures.words(), or the structures themselves
ResolveWords ==
    /\ fpc = "words"
    /\ fwd' = [fwd EXCEPT !.has_batch_dim = (input.kind = "batch")]
    /\ fpc' = "inputs"
    /\ UNCHANGED <<ctorVars, self, error, input, tensorVars, fitVars>>

\* _get_inputs: self.vocab_hash[word] of a value that is no vocabulary word
\* is a KeyError
GetInputs ==
    /\ fpc = "inputs"
    /\ IF input.kind = "other"
       THEN /\ error' = "KeyError"
            /\ fpc' = "failed"
            /\ fwd' = fwd
       ELSE /\ error' = "none"
            /\ fpc' = "rnns"
            /\ fwd' = [fwd EXCEPT !.size = self.embedding_size]
    /\ UNCHANGED <<ctorVars, self, input, tensorVars, fitVars>>

\* the branch of _run_rnns a stage takes
Dispatch(rnn, lengths) ==
    IF rnn.class = "ChildSumTreeLSTM" THEN "tree"
    ELSE IF rnn.class = "LSTM" /\ lengths THEN "packed"
    ELSE "plain"

\* for rnn, structure in zip(self.rnns, [structures]): the stages k..n, the
\* tensor of feature size `size` coming in
RECURSIVE RunStages(_, _, _, _, _)
RunStages(rnns, k, n, lengths, st) ==
    IF k > n \/ st.err # "none" THEN st
    ELSE IF rnns[k].input_size # st.size
    THEN [st EXCEPT !.err = "RuntimeError"]
    ELSE RunStages(rnns, k + 1, n, lengths,
                   [st EXCEPT
                      !.size = StageOutputSize(rnns[k].hidden_size, rnns[k].bidirectional),
                      !.applied = Append(st.applied, k),
                      !.dispatch = Append(st.dispatch, Dispatch(rnns[k], lengths))])

\* the number of (rnn, structure) pairs of zip(self.rnns, [structures])
CascadePairs(rnns) == ZipLen({Len(rnns), 1})

\* with no pair the loop body never binds h_all: UnboundLocalError
_run_rnns(rnns, size, lengths) ==
    LET st == RunStages(rnns, 1, CascadePairs(rnns), lengths,
                        [size |-> size, applied |-> <<>>, dispatch |-> <<>>,
                         err |-> "none"])
    IN IF st.err = "none" /\ st.applied = <<>>
       THEN [st EXCEPT !.err = "UnboundLocalError"]
       ELSE st

RunRnns ==
    /\ fpc = "rnns"
    /\ LET st == _run_rnns(self.rnns, fwd.size, input.lengths)
       IN /\ fwd' = [fwd EXCEPT !.size = st.size, !.applied = st.applied,
                                !.dispatch = st.dispatch]
          /\ error' = st.err
          /\ fpc' = IF st.err = "none" THEN "summary" ELSE "failed"
    /\ UNCHANGED <<ctorVars, self, input, tensorVars, fitVars>>

\* _run_attention, by shapes: mm/bmm of h_all with the attention map
AttentionError(s, f) ==
    IF ~f.has_batch_dim
    THEN IF Len(s.attention_map) # 1 \/ s.attention_map[1] # f.size
         THEN "RuntimeError" ELSE "none"
    ELSE IF Len(s.attention_map) # 2 THEN "IndexError"
         ELSE IF s.attention_map[2] # f.size THEN "RuntimeError" ELSE "none"

\* choose_timestep, by shapes: idxs - 1 of None is a TypeError, output.size(2)
\* of a tensor without batch dimension an IndexError
SelectorError(f, lengths) ==
    IF ~lengths THEN "TypeError"
    ELSE IF ~f.has_batch_dim THEN "IndexError"
    ELSE "none"

\* lines 253-256
Summarize ==
    /\ fpc = "summary"
    /\ LET err == IF self.attention THEN AttentionError(self, fwd)
                  ELSE SelectorError(fwd, input.lengths)
       IN /\ error' = err
          /\ fpc' = IF err = "none" THEN "regression" ELSE "failed"
          /\ fwd' = [fwd EXCEPT
                        !.summary = IF self.attention THEN "attention" ELSE "selector"]
    /\ UNCHANGED <<ctorVars, self, input, tensorVars, fitVars>>

Relu == [op |-> "relu", layer |-> 0]
Linear(l) == [op |-> "linear", layer |-> l.id]

\* a nonlinearity applied before every layer, the first included
NonlinearityAlways(i) == TRUE

\* if i: h = relu(h)   (i counts the layers from 0)
NonlinearityBefore(i) == i # 0

\* one head: for i, linear_map in enumerate(self.linear_maps[attr]); a layer
\* given a vector that is not of its input size raises a RuntimeError
RECURSIVE RunHead(_, _, _)
RunHead(layers, i, st) ==
    IF i >= Len(layers) \/ st.err # "none" THEN st
    ELSE LET l == layers[i + 1]
             ops == IF NonlinearityBefore(i) THEN Append(st.ops, Relu) ELSE st.ops
         IN IF l.in # st.size
            THEN [st EXCEPT !.ops = ops, !.err = "RuntimeError"]
            ELSE RunHead(layers, i + 1,
                         [st EXCEPT !.ops = Append(ops, Linear(l)), !.size = l.out])

\* for attr in self.attributes: h_last[attr] = h_in; ...
RECURSIVE _run_regression(_, _, _, _)
_run_regression(s, k, h_in, st) ==
    IF k > Len(s.attributes) \/ st.err # "none" THEN st
    ELSE LET attr == s.attributes[k]
             head == RunHead(s.linear_maps[attr], 0,
                             [ops |-> <<>>, size |-> h_in, err |-> "none"])
         IN _run_regression(s, k + 1, h_in,
               [ops |-> [a \in DOMAIN st.ops \cup {attr} |->
                            IF a = attr THEN head.ops ELSE st.ops[a]],
                err |-> head.err])

\* lines 258-262
RunRegression ==
    /\ fpc = "regression"
    /\ LET st == _run_regression(self, 1, fwd.size, [ops |-> EmptyFn, err |-> "none"])
       IN /\ fwd' = [fwd EXCEPT !.ops = st.ops]
          /\ error' = st.err
          /\ fpc' = IF st.err = "none" THEN "returned" ELSE "failed"
    /\ UNCHANGED <<ctorVars, self, input, tensorVars, fitVars>>

\* the models a forward pass is run on: built by the constructor from a
\* matrix, with the layer count and the direction given as scalars
ForwardCtorArgs ==
    {a \in CtorArgs :
        /\ ~a.emb.embeddings.none
        /\ ~a.num_rnn_layers.iter
        /\ ~a.bidirectional.iter}

ForwardInit ==
    /\ args \in ForwardCtorArgs
    /\ regArgs \in RegArgs
    /\ __init__(args, regArgs).err = "none"
    /\ self = __init__(args, regArgs).obj
    /\ pc = "built"
    /\ error = "none"
    /\ input \in {i \in Inputs : i.lengths => i.kind = "batch"}
    /\ fpc = "words"
    /\ fwd = NoForward
    /\ tpc = "idle"
    /\ tin = NoTensors
    /\ tout = NoResult
    /\ fitpc = "idle"
    /\ trainer = NoTrainer
    /\ fit = NoFit

ForwardNext ==
    \/ ResolveWords
    \/ GetInputs
    \/ RunRnns
    \/ Summarize
    \/ RunRegression

SpecForward == ForwardInit /\ [][ForwardNext]_vars

----------------------------------------------------------------------------
(* Claims about the forward pass, checked under SpecForward *)

\* C3: with a cascade of n >= 1 stages, one forward pass applies all n
\* stages in configuration order, each on the output of the one before, and
\* the per-timestep output handed to the attention/selector step is the
\* output of the last stage.
C3_AllStagesApplied ==
    (fpc \in {"summary", "regression", "returned"} /\ Len(self.rnns) >= 1) =>
        /\ fwd.applied = [i \in 1..Len(self.rnns) |-> i]
        /\ fwd.size = (IF Last(self.bidirectional) THEN 2 * Last(self.rnn_hidden_sizes)
                       ELSE Last(self.rnn_hidden_sizes))

\* the output sizes of the layers of an attribute's head
HeadOutSizes(attr) ==
    [i \in DOMAIN self.linear_maps[attr] |-> self.linear_maps[attr][i].out]

\* C5: with k regression hidden sizes every attribute's head has k+1 layers
\* whose output sizes are the hidden sizes in order and then output_size, and
\* a forward pass applies the rectified-linear nonlinearity once between each
\* two consecutive layers, never before the first layer nor after the last.
C5_HeadShape ==
    LET k == Len(regArgs.hidden_sizes)
    IN /\ \A a \in Range(self.attributes) :
            /\ Len(self.linear_maps[a]) = k + 1
            /\ HeadOutSizes(a) = regArgs.hidden_sizes \o <<regArgs.output_size>>
       /\ \A a \in DOMAIN fwd.ops :
            LET t == fwd.ops[a]
            IN /\ Len(t) <= 2 * k + 1
               /\ \A p \in DOMAIN t :
                     IF p % 2 = 0 THEN t[p] = Relu
                     ELSE t[p] = Linear(self.linear_maps[a][(p + 1) \div 2])
       /\ fpc = "returned" =>
            /\ DOMAIN fwd.ops = Range(self.attributes)
            /\ \A a \in DOMAIN fwd.ops : Len(fwd.ops[a]) = 2 * k + 1

\* two attributes with hidden sizes [6, 4] and output size 1, run to the end
C5_Witness ==
    /\ fpc = "returned"
    /\ regArgs.hidden_sizes = <<6, 4>> /\ regArgs.output_size = 1
    /\ Len(self.attributes) = 2
    /\ \A a \in Range(self.attributes) :
          /\ HeadOutSizes(a) = <<6, 4, 1>>
          /\ Len(fwd.ops[a]) = 5
          /\ fwd.ops[a][2] = Relu /\ fwd.ops[a][4] = Relu

----------------------------------------------------------------------------
(* Tensors: nested sequences, with the shape kept beside them *)

\* longest batch, longest padded sequence and widest vector handed to
\* choose_timestep; the longest sequence handed to _run_attention
MaxBatch == 3
MaxLen == 5
MaxDim == 2
MaxAttLen == 2

\* the values of the entries of h_all and of the attention map
TensorValues == {0, 1}

RECURSIVE SumSeq(_)
SumSeq(s) == IF s = <<>> THEN 0 ELSE s[1] + SumSeq(Tail(s))

\* tensor.squeeze(): every dimension of size 1 is dropped
SqueezeShape(shape) == SelectSeq(shape, LAMBDA n : n # 1)

RECURSIVE Squeeze(_, _)
Squeeze(t, shape) ==
    IF shape = <<>> THEN t
    ELSE IF shape[1] = 1 THEN Squeeze(t[1], Tail(shape))
    ELSE [i \in 1..shape[1] |-> Squeeze(t[i], Tail(shape))]

\* a (B, T, D) tensor whose entries are all different: what a gather does to
\* it shows what it does to every tensor of that shape
Generic(B, T, D) ==
    [b \in 1..B |-> [t \in 1..T |-> [d \in 1..D |-> 100 * b + 10 * t + d]]]

----------------------------------------------------------------------------
(* RNNRegression.choose_timestep *)

\* a selector that forgets to turn the length into a position
SameIndex(idxs) == idxs

\* idxs - 1
MinusOne(idxs) == [b \in DOMAIN idxs |-> idxs[b] - 1]

\* .view(-1, 1)
ViewColumn(v) == [b \in DOMAIN v |-> <<v[b]>>]

\* .expand(B, D) of an (N, 1) tensor, N = B or N = 1
Expand(m, B, D) ==
    [b \in 1..B |-> [d \in 1..D |-> m[IF Len(m) = 1 THEN 1 ELSE b][1]]]

\* .unsqueeze(1)
Unsqueeze1(m) == [b \in DOMAIN m |-> <<m[b]>>]

\* output.gather(1, idx): out[b][j][d] = output[b][idx[b][j][d]][d], the
\* positions of idx counted from 0
Gather1(output, idx) ==
    [b \in DOMAIN idx |-> [j \in DOMAIN idx[b] |-> [d \in DOMAIN idx[b][j] |->
        output[b][idx[b][j][d] + 1][d]]]]

\* gather raises on an index outside the dimension
GatherInRange(idx, T) ==
    \A b \in DOMAIN idx : \A j \in DOMAIN idx[b] : \A d \in DOMAIN idx[b][j] :
        idx[b][j][d] \in 0..(T - 1)

choose_timestep(output, shape, idxs) ==
    LET B == shape[1]
        T == shape[2]
        D == shape[3]
        idx == Unsqueeze1(Expand(ViewColumn(MinusOne(idxs)), B, D))
    IN IF Len(idxs) # B /\ Len(idxs) # 1 THEN [err |-> "RuntimeError"]
       ELSE IF ~GatherInRange(idx, T) THEN [err |-> "RuntimeError"]
       ELSE [err |-> "none",
             shape |-> SqueezeShape(<<B, 1, D>>),
             val |-> Squeeze(Gather1(output, idx), <<B, 1, D>>)]

ChooseTimestep ==
    /\ tpc = "ready"
    /\ tin.op = "select"
    /\ tout' = choose_timestep(tin.output, tin.shape, tin.idxs)
    /\ tpc' = "done"
    /\ UNCHANGED <<ctorVars, self, error, fwdVars, tin, fitVars>>

----------------------------------------------------------------------------
(* RNNRegression._run_attention; a real number is a fraction <<num, den>>, *)
(* and exp is the power of 2: positive and increasing, as exp is           *)

Exp2(x) == 2 ^ x

AddFrac(a, b) == <<a[1] * b[2] + b[1] * a[2], a[2] * b[2]>>

RECURSIVE SumFrac(_)
SumFrac(s) == IF s = <<>> THEN <<0, 1>> ELSE AddFrac(s[1], SumFrac(Tail(s)))

\* F.softmax(x, dim=0): each entry's exponential over the sum of the
\* exponentials along the first dimension
SoftmaxDim0(x, shape) ==
    IF shape = <<>> THEN <<Exp2(x), Exp2(x)>>
    ELSE IF Len(shape) = 1
    THEN [i \in 1..shape[1] |->
            <<Exp2(x[i]), SumSeq([k \in 1..shape[1] |-> Exp2(x[k])])>>]
    ELSE [i \in 1..shape[1] |-> [j \in 1..shape[2] |->
            <<Exp2(x[i][j]), SumSeq([k \in 1..shape[1] |-> Exp2(x[k][j])])>>]]

\* torch.mm(h_all, self.attention_map[:, None]): a (T, 1) tensor
ScoresMm(h_all, map) ==
    [t \in DOMAIN h_all |->
        <<SumSeq([d \in DOMAIN map |-> h_all[t][d] * map[d]])>>]

\* torch.bmm(h_all, self.attention_map[:, :, None]): a (B, T, 1) tensor
ScoresBmm(h_all, map) ==
    [b \in DOMAIN h_all |-> ScoresMm(h_all[b], map[b])]

\* the weighted sum of the rows of h_all, a vector of D fractions
WeightedSum(att, h_all, D) ==
    [d \in 1..D |->
        SumFrac([t \in DOMAIN h_all |-> <<att[t][1] * h_all[t][d], att[t][2]>>])]

\* torch.mm(att[None, :], h_all).squeeze() and its batched form; att[None, :]
\* and att[:, None, :] index one and two dimensions, an IndexError on a
\* tensor that squeeze() left with fewer
_run_attention(h_all, shape, map, has_batch_dim, return_weights) ==
    IF ~has_batch_dim
    THEN LET T == shape[1]
             D == shape[2]
             attShape == SqueezeShape(<<T, 1>>)
             att == SoftmaxDim0(Squeeze(ScoresMm(h_all, map), <<T, 1>>), attShape)
         IN IF return_weights
            THEN [err |-> "none", att |-> att, attShape |-> attShape, val |-> att]
            ELSE IF Len(attShape) < 1
            THEN [err |-> "IndexError", att |-> att, attShape |-> attShape]
            ELSE [err |-> "none", att |-> att, attShape |-> attShape,
                  val |-> Squeeze(<<WeightedSum(att, h_all, D)>>, <<1, D>>)]
    ELSE LET B == shape[1]
             T == shape[2]
             D == shape[3]
             attShape == SqueezeShape(<<B, T, 1>>)
             att == SoftmaxDim0(Squeeze(ScoresBmm(h_all, map), <<B, T, 1>>), attShape)
         IN IF return_weights
            THEN [err |-> "none", att |-> att, attShape |-> attShape, val |-> att]
            ELSE IF Len(attShape) < 2
            THEN [err |-> "IndexError", att |-> att, attShape |-> attShape]
            ELSE [err |-> "none", att |-> att, attShape |-> attShape,
                  val |-> Squeeze([b \in 1..B |-> <<WeightedSum(att[b], h_all[b], D)>>],
                                  <<B, 1, D>>)]

RunAttention ==
    /\ tpc = "ready"
    /\ tin.op = "attend"
    /\ tout' = _run_attention(tin.h_all, tin.shape, tin.attention_map,
                              tin.has_batch_dim, tin.return_weights)
    /\ tpc' = "done"
    /\ UNCHANGED <<ctorVars, self, error, fwdVars, tin, fitVars>>

\* padded outputs with the true length of each example
SelectInputs ==
    UNION {{[op |-> "select", output |-> Generic(B, T, D), shape |-> <<B, T, D>>,
             idxs |-> l] : l \in [1..B -> 1..T]} :
           B \in 1..MaxBatch, T \in 1..MaxLen, D \in 1..MaxDim}

\* per-timestep outputs (of feature size 1) and an attention map: a vector
\* for one example, a (batch_size, 1) matrix for a batch of batch_size
AttendInputs ==
    UNION {[op : {"attend"}, has_batch_dim : {FALSE}, shape : {<<T, 1>>},
            h_all : [1..T -> [1..1 -> TensorValues]],
            attention_map : [1..1 -> TensorValues],
            return_weights : BOOLEAN] : T \in 1..MaxAttLen}
    \cup
    UNION {[op : {"attend"}, has_batch_dim : {TRUE}, shape : {<<batch_size, T, 1>>},
            h_all : [1..batch_size -> [1..T -> [1..1 -> TensorValues]]],
            attention_map : [1..batch_size -> [1..1 -> TensorValues]],
            return_weights : BOOLEAN] : T \in 1..MaxAttLen}

TensorInit ==
    /\ pc = "idle"
    /\ args = NoInput
    /\ regArgs = NoRegArgs
    /\ self = NewObject
    /\ error = "none"
    /\ fpc = "idle"
    /\ input = NoInput
    /\ fwd = NoForward
    /\ tpc = "ready"
    /\ tin \in SelectInputs \cup AttendInputs
    /\ tout = NoResult
    /\ fitpc = "idle"
    /\ trainer = NoTrainer
    /\ fit = NoFit

TensorNext ==
    \/ ChooseTimestep
    \/ RunAttention

SpecTensor == TensorInit /\ [][TensorNext]_vars

----------------------------------------------------------------------------
(* Claims about the tensor operations, checked under SpecTensor *)

\* what the selector returns for example b, as a vector
C8_Row(b) ==
    LET B == tin.shape[1]
        D == tin.shape[3]
    IN IF B > 1 /\ D > 1 THEN tout.val[b]
       ELSE IF B > 1 THEN <<tout.val[b]>>
       ELSE IF D > 1 THEN tout.val
       ELSE <<tout.val>>

\* C8: given a padded (batch, max_len, dim) output and true lengths between 1
\* and max_len, the selector returns for every example b the vector at
\* position length[b]-1 (counted from 0), not the one at position max_len-1.
C8_SelectsLastValid ==
    (tpc = "done" /\ tin.op = "select") =>
        /\ tout.err = "none"
        /\ \A b \in 1..tin.shape[1] :
              /\ C8_Row(b) = tin.output[b][tin.idxs[b]]
              /\ tin.idxs[b] < tin.shape[2] => C8_Row(b) # tin.output[b][tin.shape[2]]

\* lengths [3, 5, 2] in a batch padded to 5: positions 2, 4 and 1
C8_Witness ==
    /\ tpc = "done" /\ tin.op = "select"
    /\ tin.shape = <<3, 5, 2>> /\ tin.idxs = <<3, 5, 2>>
    /\ tout.val = <<tin.output[1][3], tin.output[2][5], tin.output[3][2]>>

\* the attention weights of example b, as a sequence over its timesteps
C9_Weights(b) ==
    IF ~tin.has_batch_dim
    THEN IF tout.attShape = <<>> THEN <<tout.att>> ELSE tout.att
    ELSE IF Len(tout.attShape) = 2 THEN tout.att[b] ELSE <<tout.att[b]>>

C9_Examples == IF tin.has_batch_dim THEN 1..tin.shape[1] ELSE {1}

\* C9: with or without a batch dimension, the attention weights are
\* non-negative and, for each example, sum to 1 over its timesteps.
C9_WeightsNormalized ==
    (tpc = "done" /\ tin.op = "attend") =>
        \A b \in C9_Examples :
            /\ Len(C9_Weights(b)) = (IF tin.has_batch_dim THEN tin.shape[2] ELSE tin.shape[1])
            /\ \A t \in DOMAIN C9_Weights(b) :
                  C9_Weights(b)[t][1] >= 0 /\ C9_Weights(b)[t][2] > 0
            /\ SumFrac(C9_Weights(b))[1] = SumFrac(C9_Weights(b))[2]

----------------------------------------------------------------------------
(* RNNRegressionTrainer.fit *)

\* most epochs a trainer is configured with, most training batches
MaxEpochs == 4
MaxBatches == 2

\* correlations, in tenths: -0.1, 0.5, 0.6, 0.7
CorrValues == {-1, 5, 6, 7}

\* pre-trained matrices over the vocabulary, one column wide
TrainerMatrices ==
    {[none |-> FALSE, index |-> Tokens, values |-> v] :
        v \in [1..Len(Tokens) -> [1..1 -> TensorValues]]}

\* the trainer: __init__'s epochs, rnn_classes, attributes and the kwargs
\* kept for the model (embeddings, regression_hidden_sizes); fit's batches
Trainers ==
    [epochs : 0..MaxEpochs,
     rnn_classes : Classes,
     attributes : AttributeLists,
     embeddings : TrainerMatrices,
     regression_hidden_sizes : {<<>>, <<4>>},
     batches : 0..MaxBatches]

\* _initialize_trainer_regression (continuous): RNNRegression(device=...,
\* rnn_classes=..., attributes=..., **kwargs), the rest at its defaults
TrainerCtorArgs(t) ==
    [emb |-> [embeddings |-> t.embeddings, vocab |-> NoVocab, embedding_size |-> NoVocab],
     rnn_classes |-> Scalar(t.rnn_classes),
     rnn_hidden_sizes |-> Scalar(3),
     num_rnn_layers |-> Scalar(1),
     bidirectional |-> Scalar(FALSE)]

TrainerRegArgs(t) ==
    [attention |-> FALSE, hidden_sizes |-> t.regression_hidden_sizes,
     output_size |-> 1, attributes |-> t.attributes]

\* the parameters of the model besides the embedding table, and their values
OtherParameters == {"_rnn_0", "_linear_map"}
WeightValues == {0, 1}

\* self._regression.parameters() with each parameter's requires_grad
RequiresGrad(s) ==
    [n \in {"embeddings.weight"} \cup OtherParameters |->
        IF n = "embeddings.weight" THEN s.requires_grad ELSE TRUE]

\* an optimizer given every parameter of the model
AllParameters(s) == DOMAIN RequiresGrad(s)

\* [p for p in self._regression.parameters() if p.requires_grad]
TrainableParameters(s) == {n \in DOMAIN RequiresGrad(s) : RequiresGrad(s)[n]}

\* fractions: the mean of a list, and a < b
Mean(s) == <<SumSeq(s), Len(s)>>
Less(a, b) == a[1] * b[2] < b[1] * a[2]

\* a check that also stops when the correlation has not moved
StopOnNoGain(early_stop) ==
    ~Less(early_stop[Len(early_stop) - 1], early_stop[Len(early_stop)])

\* if (early_stop[-1] - early_stop[-2]) < 0: break
StopEarly(early_stop) ==
    Less(early_stop[Len(early_stop)], early_stop[Len(early_stop) - 1])

\* one forward call of the model: the exception it raises, "none" if none
forward(s, inp) ==
    IF inp.kind = "other" THEN "KeyError"
    ELSE LET r == _run_rnns(s.rnns, s.embedding_size, inp.lengths)
             f == [has_batch_dim |-> (inp.kind = "batch"), size |-> r.size]
             e == IF s.attention THEN AttentionError(s, f)
                  ELSE SelectorError(f, inp.lengths)
         IN IF r.err # "none" THEN r.err
            ELSE IF e # "none" THEN e
            ELSE _run_regression(s, 1, r.size, [ops |-> EmptyFn, err |-> "none"]).err

\* a batch as fit and predict hand it over: structures with their lengths
BatchInput == [kind |-> "batch", lengths |-> TRUE]

Fail(err, at) ==
    /\ error' = err
    /\ fitpc' = "failed"
    /\ fit' = [fit EXCEPT !.at = at]

\* lines 469-496
FitSetup ==
    /\ fitpc = "start"
    /\ LET res == __init__(TrainerCtorArgs(trainer), TrainerRegArgs(trainer))
       IN /\ self' = res.obj
          /\ error' = res.err
          /\ fitpc' = IF res.err = "none" THEN "loop" ELSE "failed"
          /\ fit' = [epoch |-> 0, i |-> 0, early_stop |-> <<<<0, 1>>>>,
                     optimizer |-> TrainableParameters(res.obj),
                     params |-> [n \in OtherParameters |-> 0],
                     grad |-> "none", corr |-> EmptyFn, at |-> "setup",
                     log |-> <<>>, divisor |-> 0, zeros |-> 0, backs |-> 0]
    /\ UNCHANGED <<ctorVars, fwdVars, tensorVars, trainer>>

\* a loop that runs while epoch <= self.epochs
OneEpochMore(epoch, epochs) == epoch <= epochs

\* while epoch < self.epochs
EpochsLeft(epoch, epochs) == epoch < epochs

\* while epoch < self.epochs: epoch += 1; total = len(self._Y['acceptability'])
\* (the targets Y hold one entry per attribute)
EpochStart ==
    /\ fitpc = "loop"
    /\ IF EpochsLeft(fit.epoch, trainer.epochs)
       THEN IF "acceptability" \notin Range(trainer.attributes)
            THEN /\ error' = "KeyError"
                 /\ fitpc' = "failed"
                 /\ fit' = [fit EXCEPT !.epoch = @ + 1, !.at = "epoch"]
            ELSE /\ error' = error
                 /\ fitpc' = IF trainer.batches > 0 THEN "zero_grad" ELSE "validate"
                 /\ fit' = [fit EXCEPT !.epoch = @ + 1, !.i = 0, !.at = "epoch",
                                       !.zeros = 0, !.backs = 0]
       ELSE /\ fitpc' = "done"
            /\ UNCHANGED <<error, fit>>
    /\ UNCHANGED <<ctorVars, self, fwdVars, tensorVars, trainer>>

\* what the running batch has done so far is kept in fit.log, one entry for
\* each call
Step(op) == [op |-> op, attr |-> ""]

\* for attr in self.attributes: losses[attr] = self._loss_function(...)
Losses(attrs) == [k \in 1..Len(attrs) |-> [op |-> "loss", attr |-> attrs[k]]]

\* a loss that is the plain sum of the losses
NoAverage(losses) == 1

\* loss = sum(losses.values()) / len(losses)
LossDivisor(losses) == Len(losses)

\* optimizer.zero_grad()
ZeroGrad ==
    /\ fitpc = "zero_grad"
    /\ fit' = [fit EXCEPT !.grad = "zeroed", !.at = "batch",
                          !.log = <<Step("zero_grad")>>, !.zeros = @ + 1]
    /\ fitpc' = "forward"
    /\ UNCHANGED <<ctorVars, self, error, fwdVars, tensorVars, trainer>>

\* lines 506-549: predictions, one loss per attribute, their mean; the branch
\* for other classes than LSTM calls append on the dict targ_trace
ForwardLosses ==
    /\ fitpc = "forward"
    /\ LET err == IF trainer.rnn_classes # "LSTM" THEN "AttributeError"
                  ELSE forward(self, BatchInput)
       IN IF err # "none" THEN Fail(err, "batch")
          ELSE /\ fitpc' = "backward"
               /\ error' = error
               /\ fit' = [fit EXCEPT
                            !.log = @ \o <<Step("predict")>> \o Losses(trainer.attributes)
                                      \o <<Step("mean")>>,
                            !.divisor = LossDivisor(Losses(trainer.attributes))]
    /\ UNCHANGED <<ctorVars, self, fwdVars, tensorVars, trainer>>

\* loss.backward()
Backward ==
    /\ fitpc = "backward"
    /\ fit' = [fit EXCEPT !.grad = "computed", !.backs = @ + 1,
                          !.log = Append(@, Step("backward"))]
    /\ fitpc' = "step"
    /\ UNCHANGED <<ctorVars, self, error, fwdVars, tensorVars, trainer>>

\* optimizer.step(): every parameter handed to the optimizer may change
OptimizerStep ==
    /\ fitpc = "step"
    /\ \E p \in [OtherParameters -> WeightValues], w \in TrainerMatrices :
          /\ \A n \in OtherParameters : n \notin fit.optimizer => p[n] = fit.params[n]
          /\ "embeddings.weight" \notin fit.optimizer => w.values = self.weight
          /\ self' = [self EXCEPT !.weight = w.values]
          /\ fit' = [fit EXCEPT !.params = p, !.i = @ + 1,
                                !.log = Append(@, Step("step"))]
    /\ fitpc' = IF fit.i + 1 < trainer.batches THEN "zero_grad" ELSE "validate"
    /\ UNCHANGED <<ctorVars, error, fwdVars, tensorVars, trainer>>

\* predict: predictions = {'acceptability': [...]}, filled from
\* self._regression(...)['acceptability']
PredictionKeys == {"acceptability"}

\* the attributes whose correlation lines 572-575 compute before
\* predictions[attr] fails: those in front of the first missing key
RECURSIVE Correlated(_, _)
Correlated(attrs, k) ==
    IF k > Len(attrs) \/ attrs[k] \notin PredictionKeys THEN {}
    ELSE {attrs[k]} \cup Correlated(attrs, k + 1)

\* lines 576-580: the variable correlation, left by the loop before, is
\* appended once per attribute
Corrs(attrs, c) == [k \in 1..Len(attrs) |-> c[Last(attrs)]]

\* lines 567-584
Validate ==
    /\ fitpc = "validate"
    /\ LET attrs == trainer.attributes
           perr == forward(self, BatchInput)
       IN IF perr # "none" THEN Fail(perr, "validate")
          ELSE IF "acceptability" \notin Range(attrs) THEN Fail("KeyError", "validate")
          ELSE \E c \in [Correlated(attrs, 1) -> CorrValues] :
                 IF Correlated(attrs, 1) # Range(attrs)
                 THEN /\ error' = "KeyError"
                      /\ fitpc' = "failed"
                      /\ fit' = [fit EXCEPT !.corr = c, !.at = "validate"]
                 ELSE LET es == Append(fit.early_stop, Mean(Corrs(attrs, c)))
                      IN /\ error' = error
                         /\ fit' = [fit EXCEPT !.corr = c, !.early_stop = es,
                                               !.at = "validate"]
                         /\ fitpc' = IF StopEarly(es) THEN "done" ELSE "loop"
    /\ UNCHANGED <<ctorVars, self, fwdVars, tensorVars, trainer>>

NoFitYet ==
    [epoch |-> 0, i |-> 0, early_stop |-> <<>>, optimizer |-> {},
     params |-> [n \in OtherParameters |-> 0], grad |-> "none",
     corr |-> EmptyFn, at |-> "setup",
     log |-> <<>>, divisor |-> 0, zeros |-> 0, backs |-> 0]

FitInit ==
    /\ pc = "idle"
    /\ args = NoInput
    /\ regArgs = NoRegArgs
    /\ self = NewObject
    /\ error = "none"
    /\ fpc = "idle"
    /\ input = NoInput
    /\ fwd = NoForward
    /\ tpc = "idle"
    /\ tin = NoTensors
    /\ tout = NoResult
    /\ fitpc = "start"
    /\ trainer \in Trainers
    /\ fit = NoFitYet

FitNext ==
    \/ FitSetup
    \/ EpochStart
    \/ ZeroGrad
    \/ ForwardLosses
    \/ Backward
    \/ OptimizerStep
    \/ Validate

SpecFit == FitInit /\ [][FitNext]_vars

\* fit runs in one thread that nothing suspends: a step that can be taken is
\* taken
FitLiveInit ==
    /\ FitInit
    /\ trainer.embeddings.values = [k \in 1..Len(Tokens) |-> <<0>>]

SpecFitLive == FitLiveInit /\ [][FitNext]_vars /\ WF_vars(FitNext)


----------------------------------------------------------------------------
(* Claims about fit *)

\* fit has built its model and its optimizer
FitRunning == fitpc # "start" /\ fit.early_stop # <<>>

\* equality of fractions
SameFrac(a, b) == a[1] * b[2] = b[1] * a[2]

\* the value appended by epoch k-1 is strictly lower than the one before it
Drops(k) == fit.early_stop[k][1] * fit.early_stop[k - 1][2]
              < fit.early_stop[k - 1][1] * fit.early_stop[k][2]

\* the history 0.0, 0.5, 0.7, 0.6 (in tenths, as the correlations are)
HistoryOfExample ==
    /\ Len(fit.early_stop) >= 4
    /\ SameFrac(fit.early_stop[2], <<5, 1>>)
    /\ SameFrac(fit.early_stop[3], <<7, 1>>)
    /\ SameFrac(fit.early_stop[4], <<6, 1>>)

\* C2: the early-stopping history starts as [0.0]; every completed epoch has
\* appended one value (during an epoch the value of that epoch is still
\* missing); training ends only at the end of an epoch whose value is strictly
\* lower than the one before it, or when all epochs have run; no epoch runs
\* after such a drop; and with the means 0.5, 0.7, 0.6 training has ended
\* after exactly 3 epochs.
C2_EarlyStopping ==
    FitRunning =>
        /\ fit.early_stop[1] = <<0, 1>>
        /\ fitpc \in {"loop", "done"} => Len(fit.early_stop) = fit.epoch + 1
        /\ fitpc \in {"zero_grad", "forward", "backward", "step", "validate"}
              => Len(fit.early_stop) = fit.epoch
        /\ fitpc = "done"
              => \/ Len(fit.early_stop) >= 2 /\ Drops(Len(fit.early_stop))
                 \/ fit.epoch = trainer.epochs
        /\ \A k \in 2..Len(fit.early_stop) :
              Drops(k) => k = Len(fit.early_stop) /\ fitpc = "done"
        /\ HistoryOfExample => fitpc = "done" /\ fit.epoch = 3

\* the example's run: more than 3 epochs allowed, stopped after the third
C2_Witness ==
    /\ FitRunning
    /\ fitpc = "done"
    /\ trainer.epochs > 3
    /\ trainer.batches >= 1
    /\ HistoryOfExample
    /\ fit.epoch = 3

\* _get_inputs on one word: the row of the embedding table at its index
Lookup(s, word) == s.weight[s.vocab_hash[word]]

\* C6: for a model built from a pre-trained matrix, the embedding weights are
\* not among the parameters handed to the optimizer, and at every point of fit
\* the lookup of every token is the token's row of the source matrix.
C6_EmbeddingsFrozen ==
    FitRunning =>
        /\ "embeddings.weight" \notin fit.optimizer
        /\ \A k \in DOMAIN trainer.embeddings.index :
              Lookup(self, trainer.embeddings.index[k]) = trainer.embeddings.values[k]

\* two epochs in, batches stepped, the other weights moved, the table not zero
C6_Witness ==
    /\ FitRunning
    /\ fit.epoch >= 2
    /\ fit.i >= 2
    /\ \A n \in OtherParameters : fit.params[n] = 1
    /\ \E k \in DOMAIN trainer.embeddings.index :
          /\ trainer.embeddings.values[k] = <<1>>
          /\ Lookup(self, trainer.embeddings.index[k]) = <<1>>

\* the validation of the running epoch is over: its value is appended, or it
\* has raised
Validated ==
    /\ FitRunning
    /\ fit.epoch >= 1
    /\ fit.at = "validate"

\* C7: once an epoch's validation is over, a correlation has been computed
\* for every configured attribute, and the value appended to the history is
\* the arithmetic mean of these correlations.
C7_MeanOfAttributes ==
    Validated =>
        /\ fitpc # "failed"
        /\ DOMAIN fit.corr = Range(trainer.attributes)
        /\ Len(fit.early_stop) = fit.epoch + 1
        /\ SameFrac(Last(fit.early_stop),
                    <<SumSeq([k \in 1..Len(trainer.attributes) |->
                                 fit.corr[trainer.attributes[k]]]),
                      Len(trainer.attributes)>>)


----------------------------------------------------------------------------
(* RNNRegression.attention_weights *)

\* structures[0] as attention_weights sees it, and self.has_batch_dim as the
\* forward calls before have left it ("unset" when forward was never called:
\* only forward assigns the attribute)
WeightInputs ==
    {[kind |-> k, lengths |-> FALSE, prior |-> p] :
        k \in {"tree", "flat", "batch", "other"},
        p \in {"unset", "flat", "batch"}}

\* lines 386-389: assert self.attention; the handler is for AttributeError,
\* so a failed assert leaves as the AssertionError it is
AssertAttention ==
    /\ fpc = "assert"
    /\ IF self.attention
       THEN fpc' = "words" /\ error' = "none"
       ELSE fpc' = "failed" /\ error' = "AssertionError"
    /\ UNCHANGED <<ctorVars, self, input, fwd, tensorVars, fitVars>>

\* lines 391-401: structures[0].words(), or structures[0] itself when all its
\* elements are strings; the assert sits in the AttributeError handler, where
\* the except AssertionError clause of the same try does not reach it
WeightsWords ==
    /\ fpc = "words"
    /\ IF input.kind \in {"tree", "flat"}
       THEN fpc' = "inputs" /\ error' = "none"
       ELSE fpc' = "failed" /\ error' = "AssertionError"
    /\ UNCHANGED <<ctorVars, self, input, fwd, tensorVars, fitVars>>

\* lines 403-404: _get_inputs reads self.has_batch_dim; with the batch flag
\* left set, each word is indexed as a sentence and its letters looked up
WeightsGetInputs ==
    /\ fpc = "inputs"
    /\ LET err == IF input.prior = "unset" THEN "AttributeError"
                  ELSE IF input.prior = "batch" THEN "KeyError"
                  ELSE "none"
       IN /\ error' = err
          /\ fpc' = IF err = "none" THEN "rnns" ELSE "failed"
          /\ fwd' = IF err = "none" THEN [fwd EXCEPT !.size = self.embedding_size]
                    ELSE fwd
    /\ UNCHANGED <<ctorVars, self, input, tensorVars, fitVars>>

\* def _run_rnns(self, inputs, structures, lengths)
RunRnnsParameters == <<"inputs", "structures", "lengths">>

\* self._run_rnns(inputs, structures)
RunRnnsArguments == <<"inputs", "structures">>

\* lines 406-408: a call that leaves a required positional parameter without
\* argument is a TypeError; else the cascade runs and _run_attention returns
\* the weights
WeightsRunRnns ==
    /\ fpc = "rnns"
    /\ LET st == _run_rnns(self.rnns, fwd.size, FALSE)
           err == IF Len(RunRnnsArguments) # Len(RunRnnsParameters) THEN "TypeError"
                  ELSE IF st.err # "none" THEN st.err
                  ELSE AttentionError(self, [has_batch_dim |-> FALSE, size |-> st.size])
       IN /\ error' = err
          /\ fpc' = IF err = "none" THEN "returned" ELSE "failed"
          /\ fwd' = IF err = "none"
                    THEN [fwd EXCEPT !.size = st.size, !.applied = st.applied,
                                     !.summary = "weights"]
                    ELSE fwd
    /\ UNCHANGED <<ctorVars, self, input, tensorVars, fitVars>>

WeightsInit ==
    /\ args \in ForwardCtorArgs
    /\ regArgs \in RegArgs
    /\ __init__(args, regArgs).err = "none"
    /\ self = __init__(args, regArgs).obj
    /\ pc = "built"
    /\ error = "none"
    /\ input \in WeightInputs
    /\ fpc = "assert"
    /\ fwd = NoForward
    /\ tpc = "idle"
    /\ tin = NoTensors
    /\ tout = NoResult
    /\ fitpc = "idle"
    /\ trainer = NoTrainer
    /\ fit = NoFit

WeightsNext ==
    \/ AssertAttention
    \/ WeightsWords
    \/ WeightsGetInputs
    \/ WeightsRunRnns

SpecWeights == WeightsInit /\ [][WeightsNext]_vars

\* C11: attention_weights returns the weights exactly when the model was
\* built with attention (given structures it can read: a tree or a list of
\* words, with the batch flag not set); without attention it fails and
\* returns nothing.
C11_WeightsIffAttention ==
    (fpc \in {"returned", "failed"}
        /\ input.kind \in {"tree", "flat"} /\ input.prior = "flat") =>
        /\ self.attention <=> fpc = "returned"
        /\ ~self.attention => error # "none"
        /\ fpc = "returned" => fwd.summary = "weights"


----------------------------------------------------------------------------
(* Claims about the inputs of forward and of the constructor *)

\* C12: a forward pass on a structure that has no words() method and is no
\* flat sequence of token strings ends, once the words are resolved, in a
\* ValueError, with no embedding looked up and no encoder stage applied.
C12_RejectsBadStructure ==
    (input.kind = "other" /\ fpc \notin {"idle", "words"}) =>
        /\ fpc = "failed"
        /\ error = "ValueError"
        /\ fwd.size = 0
        /\ fwd.applied = <<>>


\* C13: a construction given neither a matrix nor a vocabulary with an
\* embedding size fails before any encoder stage or regression layer is
\* built; one given a vocabulary and an embedding size (and no matrix) gets
\* its embedding table: the size given, one row per vocabulary word.
C13_EmbeddingsSource ==
    (pc # "embeddings" /\ args.emb.embeddings.none) =>
        IF args.emb.vocab.none \/ args.emb.embedding_size.none
        THEN /\ pc = "failed"
             /\ error # "none"
             /\ self.rnns = <<>>
             /\ self.linear_maps = EmptyFn
        ELSE /\ self.embedding_size = args.emb.embedding_size.val[1]
             /\ self.num_embeddings = Len(args.emb.vocab.val)
             /\ DOMAIN self.vocab_hash = Range(args.emb.vocab.val)
             /\ ~(pc = "failed" /\ self.rnns = <<>> /\ error \in {"NameError", "TypeError"})


----------------------------------------------------------------------------
(* Claims about the batches and the end of fit *)

\* the calls of one batch, in the order stated
BatchOrder(attrs) ==
    <<[op |-> "zero_grad", attr |-> ""], [op |-> "predict", attr |-> ""]>>
    \o [k \in 1..Len(attrs) |-> [op |-> "loss", attr |-> attrs[k]]]
    \o <<[op |-> "mean", attr |-> ""], [op |-> "backward", attr |-> ""],
         [op |-> "step", attr |-> ""]>>

IsPrefix(s, t) == Len(s) <= Len(t) /\ \A k \in DOMAIN s : s[k] = t[k]

\* how often op occurs in the log of the running batch
Count(op) == Cardinality({k \in DOMAIN fit.log : fit.log[k].op = op})

Ended == fitpc \in {"done", "failed"}

\* no value of the history is lower than the one before it
NoDrop == \A k \in 2..Len(fit.early_stop) : ~Drops(k)

\* C15: fit ends, whatever the validation correlations; the epoch counter
\* never exceeds epochs; a run that returns before all epochs are done has
\* been stopped by the early-stopping check of its last epoch; a run that
\* returns with no drop in its history has completed exactly epochs epochs,
\* with one validation each (none when epochs is 0).
C15_Terminates ==
    /\ <>Ended
    /\ [](FitRunning =>
            /\ fit.epoch <= trainer.epochs
            /\ (fitpc = "done" /\ fit.epoch < trainer.epochs)
                  => Len(fit.early_stop) >= 2 /\ Drops(Len(fit.early_stop))
            /\ (fitpc = "done" /\ NoDrop)
                  => /\ fit.epoch = trainer.epochs
                     /\ Len(fit.early_stop) = trainer.epochs + 1
            /\ trainer.epochs = 0
                  => fit.epoch = 0 /\ fit.early_stop = <<<<0, 1>>>>
                       /\ fitpc \in {"loop", "done"})

\* all of 3 or more epochs run, with batches, the correlation never falling
C15_Witness ==
    /\ FitRunning
    /\ fitpc = "done"
    /\ trainer.epochs >= 3
    /\ trainer.batches >= 1
    /\ fit.epoch = trainer.epochs
    /\ Len(fit.early_stop) = trainer.epochs + 1
    /\ NoDrop

====
